---- MODULE Spec2Model ----
(***************************************************************************)
(* Verification model of Assets3D: MeshProcessor (src/src/processor.py),   *)
(* the camera of ModelExporter (src/src/exporter.py) and the job handling  *)
(* of the web viewer (src/web_viewer.py).  Real numbers are exact rationals*)
(* (integer numerators over an explicit denominator); indices are 1-based. *)
(***************************************************************************)
EXTENDS Integers, Sequences, FiniteSets, TLC

VARIABLES
    size,        \* argument of generate_full_spectrum_palette
    palette,     \* the local list `palette` of the running call
    ppc,         \* position inside generate_full_spectrum_palette
    filled,      \* number of iterations of the fill loop taken by the running call
    locals,      \* the step counts computed by the running call
    results,     \* the arrays returned by the calls finished so far
    fills,       \* per finished call, the number of fill iterations it took
    input,       \* the mesh passed to process_mesh
    pc,          \* position inside process_mesh
    components,  \* the list `components` of clean_mesh (line 167)
    stages,      \* the stage calls process_mesh has made: name, argument, return value
    result,      \* what process_mesh returned
    passes,      \* enhance_sharpness: `vertices` before the first and after each iteration
    caller_mesh, \* a stage method called on its own: the caller's mesh object afterwards
    transform,   \* what get_camera_transform returned
    absorbed,    \* the axes on which float64 addition lost the camera offset (line 183)
    color_palette, \* self.color_palette of a constructed MeshProcessor
    generated,   \* number of calls of generate_full_spectrum_palette on that processor
    running,     \* per thread, the method of the processor it is executing
    job_counter, \* web_viewer.py line 19
    active_jobs, \* web_viewer.py line 18: job id -> status record
    now,         \* int(time.time()), in seconds
    outputs,     \* the files of the outputs directory, oldest modification first
    requests     \* per /generate request: its handler and background thread

pvars == <<size, palette, ppc, filled, locals, results, fills>>

mvars == <<input, pc, components, stages, result, passes, caller_mesh>>

mvars_but_pc == <<input, components, stages, result, passes, caller_mesh>>

cvars == <<transform, absorbed>>

ovars == <<color_palette, generated, running>>

jvars == <<job_counter, active_jobs, now, outputs, requests>>

vars == <<size, palette, ppc, filled, locals, results, fills,
          input, pc, components, stages, result, passes, caller_mesh,
          transform, absorbed, color_palette, generated, running,
          job_counter, active_jobs, now, outputs, requests>>

(***************************************************************************)
(* Bounds                                                                  *)
(***************************************************************************)
MaxSmallSize == 10
MaxCalls == 2
MaxFaces == 3

\* larger palette sizes added to 0..MaxSmallSize: perfect cubes, the RGB/HSV
\* switch, and HSV sizes with a full grid (264, 288) and a shortfall (289, 290)
ExtraSizes == {27, 64, 216, 264, 288, 289, 290}

PaletteSizes == (0 .. MaxSmallSize) \cup ExtraSizes

(***************************************************************************)
(* Helpers                                                                 *)
(***************************************************************************)
Max2(a, b) == IF a >= b THEN a ELSE b

Range(s) == {s[i] : i \in 1 .. Len(s)}

Take(s, n) == SubSeq(s, 1, IF n < Len(s) THEN n ELSE Len(s))

\* np.array(..., dtype=np.uint8): every channel is stored modulo 2^8
ToUint8(c) == <<c[1] % 256, c[2] % 256, c[3] % 256>>

(***************************************************************************)
(* RGB cube branch (size <= 216)                                           *)
(***************************************************************************)
RgbCubeLimit == 216

\* int(np.round(size ** (1/3))): the k with (k - 1/2)^3 <= size < (k + 1/2)^3
CubeSteps(n) ==
    CHOOSE k \in 0 .. 7 :
        /\ (2 * k - 1) * (2 * k - 1) * (2 * k - 1) <= 8 * n
        /\ 8 * n < (2 * k + 1) * (2 * k + 1) * (2 * k + 1)

LinspaceIntRounded(steps) ==
    [i \in 1 .. steps |->
        IF steps = 1 THEN 0 ELSE (2 * 255 * (i - 1) + (steps - 1)) \div (2 * (steps - 1))]

\* np.linspace(0, 255, steps, dtype=int): evenly spaced, truncated to int
LinspaceInt(steps) ==
    [i \in 1 .. steps |-> IF steps = 1 THEN 0 ELSE (255 * (i - 1)) \div (steps - 1)]

CubeEntryInnerReusesG(values, k) ==
    LET n == Len(values)
    IN  <<values[(k \div (n * n)) + 1], values[((k \div n) % n) + 1], values[((k \div n) % n) + 1]>>

\* the k-th triple (k from 0) of the nested loops r / g / b over `values`
CubeEntry(values, k) ==
    LET n == Len(values)
    IN  <<values[(k \div (n * n)) + 1], values[((k \div n) % n) + 1], values[(k % n) + 1]>>

\* the nested loops of the RGB branch; they break once len(palette) >= size
RgbCubeGrid(n) ==
    LET steps  == CubeSteps(n)
        values == LinspaceInt(steps)
        total  == steps * steps * steps
        count  == IF steps = 0 THEN 0 ELSE IF total < n THEN total
                  ELSE Max2(n, 1)
    IN  [k \in 1 .. count |-> CubeEntry(values, k - 1)]

(***************************************************************************)
(* HSV branch (size > 216) and colorsys.hsv_to_rgb                         *)
(***************************************************************************)
\* a rational number is a pair <<numerator, denominator>>, denominator > 0
Frac(n, d) == <<n, d>>

\* (x * 255).astype(int) for one channel x >= 0: truncation
ToByte(x) == (255 * x[1]) \div x[2]

\* colorsys.hsv_to_rgb(h, s, v), then (rgb * 255).astype(int)
hsv_to_rgb(h, s, v) ==
    LET i  == (6 * h[1]) \div h[2]
        fn == (6 * h[1]) % h[2]
        fd == h[2]
        p  == Frac(v[1] * (s[2] - s[1]), v[2] * s[2])
        q  == Frac(v[1] * (s[2] * fd - s[1] * fn), v[2] * s[2] * fd)
        t  == Frac(v[1] * (s[2] * fd - s[1] * (fd - fn)), v[2] * s[2] * fd)
        k  == i % 6
        rgb == IF s[1] = 0 THEN <<v, v, v>>
               ELSE IF k = 0 THEN <<v, t, p>>
               ELSE IF k = 1 THEN <<q, v, p>>
               ELSE IF k = 2 THEN <<p, v, t>>
               ELSE IF k = 3 THEN <<p, q, v>>
               ELSE IF k = 4 THEN <<t, p, v>>
               ELSE <<v, p, q>>
    IN  <<ToByte(rgb[1]), ToByte(rgb[2]), ToByte(rgb[3])>>

RECURSIVE IsqrtFrom(_, _)
IsqrtFrom(n, k) == IF (k + 1) * (k + 1) > n THEN k ELSE IsqrtFrom(n, k + 1)

\* hue_steps = int(np.sqrt(size * 2)): truncation of the square root
HueSteps(n) == IsqrtFrom(2 * n, 0)

\* sat_steps = max(2, size // hue_steps // 2)
SatSteps(n) == Max2(2, (n \div HueSteps(n)) \div 2)

\* val_steps = max(2, size // hue_steps // sat_steps)
ValSteps(n) == Max2(2, (n \div HueSteps(n)) \div SatSteps(n))

HueAtWithEndpoint(n, i) == Frac(i, HueSteps(n) - 1)

\* h / 360 for the i-th value (i from 0) of np.linspace(0, 360, hue_steps, endpoint=False)
HueAt(n, i) == Frac(i, HueSteps(n))

\* the j-th value (j from 0) of np.linspace(0.6, 1.0, sat_steps)
SatAt(n, j) == Frac(6 * (SatSteps(n) - 1) + 4 * j, 10 * (SatSteps(n) - 1))

\* the l-th value (l from 0) of np.linspace(0.7, 1.0, val_steps)
ValAt(n, l) == Frac(7 * (ValSteps(n) - 1) + 3 * l, 10 * (ValSteps(n) - 1))

\* the (h, s, v) of the k-th iteration (k from 0) of the nested loops h / s / v
HsvIndex(n, k) ==
    [h |-> k \div (SatSteps(n) * ValSteps(n)),
     s |-> (k \div ValSteps(n)) % SatSteps(n),
     v |-> k % ValSteps(n)]

\* the nested loops of the HSV branch; they break once len(palette) >= size
HsvGrid(n) ==
    LET total == HueSteps(n) * SatSteps(n) * ValSteps(n)
        count == IF total < n THEN total ELSE n
    IN  [k \in 1 .. count |->
            LET ix == HsvIndex(n, k - 1)
            IN  hsv_to_rgb(HueAt(n, ix.h), SatAt(n, ix.s), ValAt(n, ix.v))]

\* number of entries the deterministic enumeration can hold
GridCapacity(n) ==
    IF n <= RgbCubeLimit THEN CubeSteps(n) * CubeSteps(n) * CubeSteps(n)
    ELSE HueSteps(n) * SatSteps(n) * ValSteps(n)

\* what np.random.random() / np.random.uniform(0.8, 1.0) can return in the fill
\* loop: h in [0, 1), s and v in [0.8, 1.0)
RandomHSV ==
    { [h |-> Frac(1, 12), s |-> Frac(9, 10),  v |-> Frac(9, 10)],
      [h |-> Frac(1, 2),  s |-> Frac(17, 20), v |-> Frac(19, 20)],
      [h |-> Frac(5, 6),  s |-> Frac(4, 5),   v |-> Frac(4, 5)] }

(***************************************************************************)
(* generate_full_spectrum_palette as a state machine                       *)
(***************************************************************************)
NotReturned == [returned |-> FALSE, value |-> [none |-> TRUE, vertices |-> <<>>, den |-> 1, faces |-> <<>>, colors |-> <<>>]]

\* the web viewer is not part of this behaviour
ServerNotStarted ==
    /\ job_counter = 0
    /\ active_jobs = <<>>
    /\ now = 0
    /\ outputs = <<>>
    /\ requests = <<>>

NoLocals == [steps |-> 0, hue_steps |-> 0, sat_steps |-> 0, val_steps |-> 0]

\* line 57: the condition of the fill loop
FillNeededOffByOne(pal, n) == Len(pal) < n - 1

FillNeededInclusive(pal, n) == Len(pal) <= n /\ n > 0

FillNeeded(pal, n) == Len(pal) < n

InitPalette ==
    /\ size \in PaletteSizes
    /\ palette = <<>>
    /\ ppc = "branch"
    /\ filled = 0
    /\ locals = NoLocals
    /\ results = <<>>
    /\ fills = <<>>
    /\ input = NotReturned.value
    /\ pc = "idle"
    /\ components = <<>>
    /\ stages = <<>>
    /\ result = NotReturned
    /\ passes = <<>>
    /\ caller_mesh = NotReturned.value
    /\ transform = NotReturned
    /\ absorbed = {}
    /\ color_palette = <<>>
    /\ generated = 0
    /\ running = <<>>
    /\ ServerNotStarted

\* lines 19-34: the RGB cube enumeration
GridRGB ==
    /\ ppc = "branch"
    /\ size <= RgbCubeLimit
    /\ palette' = RgbCubeGrid(size)
    /\ locals' = [NoLocals EXCEPT !.steps = CubeSteps(size)]
    /\ ppc' = "fill"
    /\ UNCHANGED <<size, filled, results, fills>>
    /\ UNCHANGED <<mvars, cvars, ovars, jvars>>

\* lines 36-54: the HSV enumeration
GridHSV ==
    /\ ppc = "branch"
    /\ size > RgbCubeLimit
    /\ palette' = HsvGrid(size)
    /\ locals' = [NoLocals EXCEPT !.hue_steps = HueSteps(size),
                                  !.sat_steps = SatSteps(size),
                                  !.val_steps = ValSteps(size)]
    /\ ppc' = "fill"
    /\ UNCHANGED <<size, filled, results, fills>>
    /\ UNCHANGED <<mvars, cvars, ovars, jvars>>

\* lines 57-62: one iteration of the fill loop
FillStep ==
    /\ ppc = "fill"
    /\ FillNeeded(palette, size)
    /\ \E c \in RandomHSV :
          palette' = Append(palette, hsv_to_rgb(c.h, c.s, c.v))
    /\ filled' = filled + 1
    /\ UNCHANGED <<size, ppc, locals, results, fills>>
    /\ UNCHANGED <<mvars, cvars, ovars, jvars>>

\* line 64: np.array(palette[:size], dtype=np.uint8)
ReturnedPalette(pal, n) == [i \in 1 .. Len(Take(pal, n)) |-> ToUint8(pal[i])]

Return ==
    /\ ppc = "fill"
    /\ ~FillNeeded(palette, size)
    /\ results' = Append(results, ReturnedPalette(palette, size))
    /\ fills' = Append(fills, filled)
    /\ ppc' = "done"
    /\ UNCHANGED <<size, palette, filled, locals>>
    /\ UNCHANGED <<mvars, cvars, ovars, jvars>>

\* a further call with the same argument (a second MeshProcessor of that size)
CallAgain ==
    /\ ppc = "done"
    /\ Len(results) < MaxCalls
    /\ palette' = <<>>
    /\ filled' = 0
    /\ locals' = NoLocals
    /\ ppc' = "branch"
    /\ UNCHANGED <<size, results, fills>>
    /\ UNCHANGED <<mvars, cvars, ovars, jvars>>

NextPalette == GridRGB \/ GridHSV \/ FillStep \/ Return \/ CallAgain

SpecPalette == InitPalette /\ [][NextPalette]_vars

(***************************************************************************)
(* Claims about the palette generator (under SpecPalette)                  *)
(***************************************************************************)
IsByteTriple(c) == Len(c) = 3 /\ \A k \in 1 .. 3 : c[k] \in 0 .. 255

Distinct(s) == \A i, j \in 1 .. Len(s) : i # j => s[i] # s[j]

Min2(a, b) == IF a <= b THEN a ELSE b

\* C2: every call of generate_full_spectrum_palette(N), N >= 0, returns exactly N
\* RGB triples whose channels are integers in [0,255]; the entries of the list
\* built by the cube, the HSV grid and the random fill are in that range already.
C2_ExactlyNByteTriples ==
    /\ \A i \in 1 .. Len(results) :
          /\ Len(results[i]) = size
          /\ \A k \in 1 .. Len(results[i]) : IsByteTriple(results[i][k])
    /\ \A k \in 1 .. Len(palette) : IsByteTriple(palette[k])

\* a call for an HSV-sized palette has returned after taking the random fill
C2_Witness ==
    /\ Len(results) >= 1
    /\ size > RgbCubeLimit
    /\ fills[1] > 0

\* C3 (as stated): the N colours returned are pairwise distinct, the entries of
\* the random fill included.
C3_AllDistinct == \A i \in 1 .. Len(results) : Distinct(results[i])

\* C3 (amended): the entries produced by the deterministic enumeration (the
\* first min(N, grid capacity) entries of the returned palette) are pairwise
\* distinct; nothing is claimed of the entries added by the random fill.
C3_GridEntriesDistinct ==
    \A i \in 1 .. Len(results) :
        Distinct(Take(results[i], Min2(size, Len(results[i]) - fills[i])))

\* a call has returned HSV grid entries converted to byte triples, plus a fill
C3_Witness ==
    /\ Len(results) >= 1
    /\ size > RgbCubeLimit
    /\ fills[1] = 2
    /\ Len(results[1]) - fills[1] > 216

\* the evenly spaced channel values and the product order the claims C4 describe
RoundCubeRoot(n) ==
    CHOOSE k \in 0 .. 7 : (2*k - 1) * (2*k - 1) * (2*k - 1) <= 8 * n
                          /\ 8 * n < (2*k + 1) * (2*k + 1) * (2*k + 1)

EvenValue(steps, i) == IF steps = 1 THEN 0 ELSE (255 * i) \div (steps - 1)

\* Cartesian product of `steps` values, R outermost, G in the middle, B innermost
ProductRGB(steps) ==
    [k \in 1 .. steps * steps * steps |->
        <<EvenValue(steps, (k - 1) \div (steps * steps)),
          EvenValue(steps, ((k - 1) \div steps) % steps),
          EvenValue(steps, (k - 1) % steps)>>]

IsCube(n) == \E k \in 0 .. 6 : k * k * k = n

CubeCorners ==
    << <<0, 0, 0>>, <<0, 0, 255>>, <<0, 255, 0>>, <<0, 255, 255>>,
       <<255, 0, 0>>, <<255, 0, 255>>, <<255, 255, 0>>, <<255, 255, 255>> >>

\* C4 (as stated): for N <= 216 the returned palette is the first N entries of
\* the Cartesian product of steps = round(N^(1/3)) evenly spaced values.
C4_IsFirstNOfProduct ==
    \A i \in 1 .. Len(results) :
        size <= RgbCubeLimit =>
            results[i] = Take(ProductRGB(RoundCubeRoot(size)), size)

\* C4 (amended): for N <= 216 the first min(N, steps^3) entries of the returned
\* palette are the first entries of that product (R outer, G middle, B inner);
\* a perfect cube N gives no duplicate triple and 8 gives the cube corners in order.
C4_PrefixOfProduct ==
    \A i \in 1 .. Len(results) :
        size <= RgbCubeLimit =>
            LET steps == RoundCubeRoot(size)
                m     == Min2(size, steps * steps * steps)
            IN  /\ Len(results[i]) >= m
                /\ Take(results[i], m) = Take(ProductRGB(steps), size)
                /\ IsCube(size) => Len(results[i]) = size /\ Distinct(results[i])
                /\ size = 8 => results[i] = CubeCorners

\* a palette of 27 colours (a perfect cube with a truncated mid value) was returned
C4_Witness ==
    /\ Len(results) >= 1
    /\ size = 27

\* C5: the random fill is taken exactly when the grid (steps^3, or
\* hue_steps*sat_steps*val_steps) holds fewer than N colours and it adds exactly
\* the missing number of entries; when the grid holds at least N entries all
\* calls with that N return the same sequence.
C5_FillOnlyOnShortfall ==
    ppc \in {"fill", "done"} =>
        LET steps == RoundCubeRoot(size)
            cap   == IF size <= RgbCubeLimit THEN steps * steps * steps
                     ELSE locals.hue_steps * locals.sat_steps * locals.val_steps
            short == IF cap < size THEN size - cap ELSE 0
        IN  /\ filled <= short
            /\ Len(palette) = Min2(size, cap) + filled
            /\ \A i \in 1 .. Len(results) :
                  /\ (fills[i] > 0) <=> (cap < size)
                  /\ fills[i] = short
            /\ cap >= size =>
                  \A i, j \in 1 .. Len(results) : results[i] = results[j]

\* two calls for an HSV size whose grid holds exactly N colours have returned
C5_Witness ==
    /\ Len(results) = 2
    /\ size > RgbCubeLimit
    /\ fills = <<0, 0>>

\* round(sqrt(m)): the k with (k - 1/2)^2 <= m < (k + 1/2)^2
RoundSqrt(m) ==
    CHOOSE k \in 0 .. m : (2*k - 1) * (2*k - 1) <= 4 * m /\ 4 * m < (2*k + 1) * (2*k + 1)

FloorSqrt(m) == CHOOSE k \in 0 .. m : k * k <= m /\ m < (k + 1) * (k + 1)

\* the HSV triple the grid of C6 has at position k (from 0): hue outermost over
\* [0, 360) in hue steps, saturation 0.6..1.0 in the middle, value 0.7..1.0 innermost
HsvExpected(hue, sat, val, k) ==
    LET hi == k \div (sat * val)
        si == (k \div val) % sat
        vi == k % val
    IN  hsv_to_rgb(Frac(hi, hue),
                   Frac(6 * (sat - 1) + 4 * si, 10 * (sat - 1)),
                   Frac(7 * (val - 1) + 3 * vi, 10 * (val - 1)))

\* C6 (as stated): for N > 216 the generator uses hue_steps = round(sqrt(2N)).
C6_HueStepsRounded ==
    (size > RgbCubeLimit /\ ppc \in {"fill", "done"}) =>
        locals.hue_steps = RoundSqrt(2 * size)

\* C6 (amended): for N > 216 hue_steps is sqrt(2N) truncated to an integer, the
\* saturation and value step counts are at least 2, and the grid is enumerated
\* hue outermost, saturation in the middle, value innermost, 360 degrees
\* excluded, stopping as soon as N colours are collected.
C6_HsvGridShape ==
    (size > RgbCubeLimit /\ ppc \in {"fill", "done"}) =>
        LET hue == locals.hue_steps
            sat == locals.sat_steps
            val == locals.val_steps
            m   == Min2(size, hue * sat * val)
        IN  /\ hue = FloorSqrt(2 * size)
            /\ sat >= 2 /\ val >= 2
            /\ Len(palette) - filled = m
            /\ \A k \in 1 .. m : palette[k] = HsvExpected(hue, sat, val, k - 1)

\* the HSV grid of a size whose rounded and truncated square roots differ
C6_Witness ==
    /\ size = 264
    /\ ppc = "done"

(***************************************************************************)
(* Meshes.  A mesh holds `vertices` (integer triples, the coordinates being  *)
(* vertices[i][k] / den), `faces` (triples of 1-based vertex indices, kept   *)
(* up to the order of the three indices, which only fix_normals touches)     *)
(* and `colors` (<<>> when no vertex colours are defined).                   *)
(***************************************************************************)
NoMesh == [none |-> TRUE, vertices |-> <<>>, den |-> 1, faces |-> <<>>, colors |-> <<>>]

Mesh(vs, d, fs, cs) == [none |-> FALSE, vertices |-> vs, den |-> d, faces |-> fs, colors |-> cs]

VSub(a, b) == <<a[1] - b[1], a[2] - b[2], a[3] - b[3]>>

VCross(a, b) ==
    <<a[2] * b[3] - a[3] * b[2], a[3] * b[1] - a[1] * b[3], a[1] * b[2] - a[2] * b[1]>>

Sort3(f) ==
    LET lo == Min2(f[1], Min2(f[2], f[3]))
        hi == Max2(f[1], Max2(f[2], f[3]))
    IN  <<lo, f[1] + f[2] + f[3] - lo - hi, hi>>

RECURSIVE SetToSeq(_)
SetToSeq(S) ==
    IF S = {} THEN <<>>
    ELSE LET x == CHOOSE y \in S : \A z \in S : y <= z
         IN  <<x>> \o SetToSeq(S \ {x})

\* vertex indices referenced by some face
Referenced(m) == UNION {{f[1], f[2], f[3]} : f \in Range(m.faces)}

\* Trimesh.update_vertices(mask, inverse): keep the vertices in `keep`, send
\* every index through `inverse`, carry the vertex colours along
UpdateVertices(m, keep, inverse) ==
    LET idx == SetToSeq(keep)
        pos(i) == Cardinality({j \in keep : j <= i})
    IN  Mesh([k \in 1 .. Len(idx) |-> m.vertices[idx[k]]],
             m.den,
             [k \in 1 .. Len(m.faces) |->
                 Sort3(<<pos(inverse[m.faces[k][1]]), pos(inverse[m.faces[k][2]]),
                         pos(inverse[m.faces[k][3]])>>)],
             IF m.colors = <<>> THEN <<>> ELSE [k \in 1 .. Len(idx) |-> m.colors[idx[k]]])

\* a triangle of zero area: its three corners are collinear or coincident
IsDegenerate(m, f) ==
    VCross(VSub(m.vertices[f[2]], m.vertices[f[1]]),
           VSub(m.vertices[f[3]], m.vertices[f[1]])) = <<0, 0, 0>>

\* line 161: mesh.remove_degenerate_faces()
RemoveDegenerateFaces(m) ==
    LET ok(f) == ~IsDegenerate(m, f)
    IN  [m EXCEPT !.faces = SelectSeq(m.faces, ok)]

\* line 164: mesh.remove_unreferenced_vertices()
RemoveUnreferencedVertices(m) ==
    UpdateVertices(m, Referenced(m), [i \in 1 .. Len(m.vertices) |-> i])

\* the undirected edges of a face
FaceEdges(f) == {{f[1], f[2]}, {f[2], f[3]}, {f[1], f[3]}}

\* Trimesh.face_adjacency: two faces are adjacent when they share an edge that
\* occurs in exactly two faces of the mesh
FaceAdjacent(m, i, j) ==
    /\ i # j
    /\ \E e \in FaceEdges(m.faces[i]) \cap FaceEdges(m.faces[j]) :
          Cardinality({k \in 1 .. Len(m.faces) : e \in FaceEdges(m.faces[k])}) = 2

RECURSIVE Reach(_, _)
Reach(m, S) ==
    LET T == S \cup {j \in 1 .. Len(m.faces) : \E i \in S : FaceAdjacent(m, i, j)}
    IN  IF T = S THEN S ELSE Reach(m, T)

\* the connected components of the faces, in the order of their first face
RECURSIVE ComponentsFrom(_, _)
ComponentsFrom(m, todo) ==
    IF todo = {} THEN <<>>
    ELSE LET first == CHOOSE i \in todo : \A j \in todo : i <= j
             comp  == Reach(m, {first})
         IN  <<comp>> \o ComponentsFrom(m, todo \ comp)

\* Trimesh.submesh of one component: its faces and the vertices they reference
Submesh(m, comp) ==
    LET sub == [m EXCEPT !.faces = [k \in 1 .. Cardinality(comp) |-> m.faces[SetToSeq(comp)[k]]]]
    IN  UpdateVertices(sub, Referenced(sub), [i \in 1 .. Len(m.vertices) |-> i])

\* line 167: mesh.split(only_watertight=False)
Split(m) ==
    LET comps == ComponentsFrom(m, 1 .. Len(m.faces))
    IN  [k \in 1 .. Len(comps) |-> Submesh(m, comps[k])]

LargestLastFound(comps) ==
    LET n == Len(comps)
        best == CHOOSE k \in 1 .. n :
                   /\ \A j \in 1 .. n : Len(comps[j].vertices) <= Len(comps[k].vertices)
                   /\ \A j \in (k + 1) .. n :
                         Len(comps[j].vertices) < Len(comps[k].vertices)
    IN  comps[best]

\* line 169: max(components, key=lambda x: len(x.vertices)), the first maximum
Largest(comps) ==
    LET n == Len(comps)
        best == CHOOSE k \in 1 .. n :
                   /\ \A j \in 1 .. n : Len(comps[j].vertices) <= Len(comps[k].vertices)
                   /\ \A j \in 1 .. (k - 1) :
                         Len(comps[j].vertices) < Len(comps[k].vertices)
    IN  comps[best]

\* line 174: mesh.fix_normals() reverses the index order of faces only, which
\* the faces of this model do not record
FixNormals(m) == m

\* line 177: mesh.merge_vertices(merge_tex=False, merge_norm=False): vertices
\* at the same position become the first of them; unreferenced ones are dropped
\* (all vertices count as referenced when there is no face)
MergeVertices(m) ==
    LET n == Len(m.vertices)
        referenced == IF Len(m.faces) > 0 THEN Referenced(m) ELSE 1 .. n
        rep(i) == CHOOSE j \in referenced :
                     /\ m.vertices[j] = m.vertices[i]
                     /\ \A k \in referenced : m.vertices[k] = m.vertices[i] => j <= k
        inverse == [i \in 1 .. n |-> IF i \in referenced THEN rep(i) ELSE i]
    IN  UpdateVertices(m, {rep(i) : i \in referenced}, inverse)

(***************************************************************************)
(* clean_mesh, normalize_mesh, enhance_sharpness, enhance_colors           *)
(***************************************************************************)
Abs(x) == IF x < 0 THEN -x ELSE x

RECURSIVE Gcd(_, _)
Gcd(a, b) == IF b = 0 THEN Abs(a) ELSE Gcd(b, a % b)

RECURSIVE GcdAll(_, _)
GcdAll(vs, g) ==
    IF vs = <<>> THEN g
    ELSE GcdAll(Tail(vs), Gcd(Gcd(Gcd(g, Abs(vs[1][1])), Abs(vs[1][2])), Abs(vs[1][3])))

\* the same coordinates over the smallest denominator
Reduced(m) ==
    LET g == GcdAll(m.vertices, m.den)
    IN  [m EXCEPT !.den = m.den \div g,
                  !.vertices = [i \in 1 .. Len(m.vertices) |->
                                   <<m.vertices[i][1] \div g, m.vertices[i][2] \div g,
                                     m.vertices[i][3] \div g>>]]

\* lines 160-180: the body of clean_mesh when no call raises; `components` is
\* the list returned by split, `mesh` the value returned
CleanSteps(m) ==
    LET m1 == RemoveDegenerateFaces(m)
        m2 == RemoveUnreferencedVertices(m1)
        comps == Split(m2)
        m3 == IF Len(comps) > 1 THEN Largest(comps) ELSE m2
        m4 == FixNormals(m3)
        m5 == MergeVertices(m4)
    IN  [components |-> comps, mesh |-> m5]

\* Trimesh.bounds: per axis the least and greatest coordinate of the referenced vertices
BoundsLo(m, k) ==
    CHOOSE x \in {m.vertices[i][k] : i \in Referenced(m)} :
        \A i \in Referenced(m) : x <= m.vertices[i][k]

BoundsHi(m, k) ==
    CHOOSE x \in {m.vertices[i][k] : i \in Referenced(m)} :
        \A i \in Referenced(m) : x >= m.vertices[i][k]

\* line 191: (bounds[1] - bounds[0]).max(), as a numerator over m.den
Extent(m) ==
    Max2(BoundsHi(m, 1) - BoundsLo(m, 1),
         Max2(BoundsHi(m, 2) - BoundsLo(m, 2), BoundsHi(m, 3) - BoundsLo(m, 3)))

\* Trimesh.bounds is None when no vertex is referenced
BoundsIsNone(m) == Referenced(m) = {}

NormalizeWithoutCentering(m) ==
    LET scale == IF Extent(m) = 0 THEN m.den ELSE Extent(m)
    IN  Reduced([m EXCEPT
                 !.den = scale,
                 !.vertices = [i \in 1 .. Len(m.vertices) |->
                     <<2 * m.vertices[i][1], 2 * m.vertices[i][2], 2 * m.vertices[i][3]>>]])

NormalizeFallbackScaleTwo(m) ==
    LET scale == IF Extent(m) = 0 THEN 2 * m.den ELSE Extent(m)
    IN  Reduced([m EXCEPT
                 !.den = scale,
                 !.vertices = [i \in 1 .. Len(m.vertices) |->
                     [k \in 1 .. 3 |->
                         2 * m.vertices[i][k] - BoundsLo(m, k) - BoundsHi(m, k)]]])

\* lines 189-200: (vertices - center) / (scale * 0.5), for a mesh that has bounds
NormalizeSteps(m) ==
    LET scale == IF Extent(m) = 0 THEN m.den ELSE Extent(m)
    IN  Reduced([m EXCEPT
                 !.den = scale,
                 !.vertices = [i \in 1 .. Len(m.vertices) |->
                     [k \in 1 .. 3 |->
                         2 * m.vertices[i][k] - BoundsLo(m, k) - BoundsHi(m, k)]]])

VDot(a, b) == a[1] * b[1] + a[2] * b[2] + a[3] * b[3]

\* p / r < s / q for p, s >= 0 and r, q > 0, by continued fractions (no product
\* is formed, so nothing overflows)
RECURSIVE FracLess(_, _, _, _)
FracLess(p, r, s, q) ==
    IF p \div r # s \div q THEN p \div r < s \div q
    ELSE IF s % q = 0 THEN FALSE
    ELSE IF p % r = 0 THEN TRUE
    ELSE FracLess(q, s % q, r, p % r)

\* a vector divided by the greatest common divisor of its coordinates
Primitive(a) ==
    LET g == Gcd(Gcd(Abs(a[1]), Abs(a[2])), Abs(a[3]))
    IN  IF g = 0 THEN a ELSE <<a[1] \div g, a[2] \div g, a[3] \div g>>

\* lines 100-105: arccos(clip(dot / (|a| |b|), -1, 1)) > pi / 3, i.e. the cosine
\* is below 1/2 (4 dot^2 < |a|^2 |b|^2 when dot >= 0); a zero-length vector
\* gives nan, which compares False
AngleAbove60(u, w) ==
    LET a == Primitive(u)
        b == Primitive(w)
    IN  /\ VDot(a, a) > 0
        /\ VDot(b, b) > 0
        /\ \/ VDot(a, b) <= 0
           \/ FracLess(4 * VDot(a, b), VDot(a, a), VDot(b, b), VDot(a, b))

\* lines 82-87: the one-ring neighbours of vertex i, in increasing index order
Neighbors(faces, i) ==
    SetToSeq((UNION {{f[1], f[2], f[3]} : f \in {g \in Range(faces) : i \in {g[1], g[2], g[3]}}})
             \ {i})

\* lines 97-107
IsSharp(vs, faces, i) ==
    LET nb == Neighbors(faces, i)
    IN  /\ Len(nb) >= 2
        /\ \E j \in 1 .. (Len(nb) - 1) :
              AngleAbove60(VSub(vs[nb[j]], vs[i]), VSub(vs[nb[j + 1]], vs[i]))

\* line 110: the vertices the iteration moves
Moves(vs, faces, i) == Len(Neighbors(faces, i)) > 0 /\ ~IsSharp(vs, faces, i)

RECURSIVE LcmOf(_)
LcmOf(S) ==
    IF S = {} THEN 1
    ELSE LET x == CHOOSE y \in S : TRUE
             r == LcmOf(S \ {x})
         IN  (x * r) \div Gcd(x, r)

RECURSIVE VSum(_, _)
VSum(vs, idx) ==
    IF idx = <<>> THEN <<0, 0, 0>>
    ELSE LET r == VSum(vs, Tail(idx))
         IN  <<vs[idx[1]][1] + r[1], vs[idx[1]][2] + r[2], vs[idx[1]][3] + r[3]>>

SmoothOnceInPlace(m) ==
    LET RECURSIVE From(_, _)
        From(cur, i) ==
            IF i > Len(cur.vertices) THEN cur
            ELSE IF ~Moves(cur.vertices, cur.faces, i) THEN From(cur, i + 1)
            ELSE LET nb == Neighbors(cur.faces, i)
                     k  == Len(nb)
                     sm == VSum(cur.vertices, nb)
                 IN  From(Reduced([cur EXCEPT
                         !.den = cur.den * 5 * k,
                         !.vertices = [j \in 1 .. Len(cur.vertices) |->
                             IF j = i
                             THEN [c \in 1 .. 3 |-> 4 * k * cur.vertices[i][c] + sm[c]]
                             ELSE [c \in 1 .. 3 |-> cur.vertices[j][c] * 5 * k]]]), i + 1)
    IN  From(m, 1)

\* lines 79-115: one smoothing iteration, every new position computed from the
\* positions before it: 0.8 * vertex + 0.2 * mean(neighbours) for a moved vertex
SmoothOnce(m) ==
    LET vs == m.vertices
        n  == Len(vs)
        moved == {i \in 1 .. n : Moves(vs, m.faces, i)}
        mult == 5 * LcmOf({Len(Neighbors(m.faces, i)) : i \in moved})
    IN  IF moved = {} THEN m
        ELSE Reduced([m EXCEPT
                !.den = m.den * mult,
                !.vertices = [i \in 1 .. n |->
                    IF i \in moved
                    THEN LET nb == Neighbors(m.faces, i)
                             k  == Len(nb)
                             sm == VSum(vs, nb)
                         IN  [c \in 1 .. 3 |-> (4 * k * vs[i][c] + sm[c]) * (mult \div (5 * k))]
                    ELSE [c \in 1 .. 3 |-> vs[i][c] * mult]]])

DefaultColor == <<102, 102, 102, 255>>

\* mesh.visual.vertex_colors: the stored colours, or the default colour for
\* every vertex when none are stored
VertexColors(m) ==
    IF m.colors # <<>> THEN m.colors ELSE [i \in 1 .. Len(m.vertices) |-> DefaultColor]

RECURSIVE PassesFrom(_, _)
\* lines 78-115: k more iterations of the range(3) loop after the history ps
PassesFrom(ps, k) ==
    IF k = 0 THEN ps ELSE PassesFrom(Append(ps, SmoothOnce(ps[Len(ps)])), k - 1)

\* lines 74-115: `vertices` at line 74 and after each of the range(3) iterations
SharpenPasses(m) == PassesFrom(<<m>>, 3)

\* lines 117-124: trimesh.Trimesh(vertices, faces, vertex_colors), whose
\* constructor merges coincident vertices; `passes` is the history of
\* `vertices`, `mesh` the value returned
Rebuilt(m, ps) ==
    [passes |-> ps, mesh |-> MergeVertices([ps[Len(ps)] EXCEPT !.colors = VertexColors(m)])]

\* lines 74-124: three iterations, then the new Trimesh
SharpenSteps(m) == Rebuilt(m, SharpenPasses(m))

\* the palette of a MeshProcessor(palette_size=8)
ColorPalette == ReturnedPalette(RgbCubeGrid(8), 8)

\* line 209: `mesh.visual.vertex_colors is None`; the property never is None
VertexColorsIsNone(m) == FALSE

ColorStepsOverwrites(m, picks) ==
    [m EXCEPT !.colors = [i \in 1 .. Len(m.vertices) |-> DefaultColor]]

\* lines 209-223; picks[i] is np.random.choice(len(self.color_palette)) for vertex i
ColorSteps(m, picks) ==
    IF VertexColorsIsNone(m)
    THEN [m EXCEPT !.colors = [i \in 1 .. Len(m.vertices) |->
                                  ColorPalette[picks[i]] \o <<255>>]]
    ELSE [m EXCEPT !.colors = VertexColors(m)]

(***************************************************************************)
(* The meshes process_mesh is run on                                       *)
(***************************************************************************)
\* five points in general position (no three collinear) and the midpoint of
\* the first two
PointTable ==
    << <<0, 0, 0>>, <<2, 0, 0>>, <<0, 3, 0>>, <<0, 0, 1>>, <<2, 3, 1>>, <<1, 0, 0>> >>

\* where the vertices 1, 2, ... lie: all apart; 1 and 2 coincident; 3 on the
\* segment from 1 to 2; two coincident pairs; three coincident; all coincident
Layouts ==
    { <<1, 2, 3, 4, 5>>, <<1, 1, 3, 4, 5>>, <<1, 2, 6, 4, 5>>,
      <<1, 1, 3, 3, 5>>, <<1, 1, 1, 4, 5>>, <<1, 1, 1, 1, 1>> }

Triples(n) == {t \in (1 .. n) \X (1 .. n) \X (1 .. n) : t[1] < t[2] /\ t[2] < t[3]}

RECURSIVE SubsetsUpTo(_, _)
SubsetsUpTo(S, k) ==
    IF k = 0 THEN {{}}
    ELSE LET prev == SubsetsUpTo(S, k - 1)
         IN  prev \cup {T \cup {x} : T \in prev, x \in S}

TripleKey(t) == 100 * t[1] + 10 * t[2] + t[3]

\* the faces of a set, in lexicographic order
FaceSeq(T) ==
    LET keys == SetToSeq({TripleKey(t) : t \in T})
    IN  [k \in 1 .. Len(keys) |-> CHOOSE t \in T : TripleKey(t) = keys[k]]

TagColors(n) == [i \in 1 .. n |-> <<i, i, i, 255>>]

\* the meshes on the first n vertices of a layout, with and without stored colours
MeshesOf(layout, n) ==
    {Mesh([i \in 1 .. n |-> PointTable[layout[i]]], 1, FaceSeq(T),
          IF colored THEN TagColors(n) ELSE <<>>) :
        colored \in BOOLEAN, T \in SubsetsUpTo(Triples(n), MaxFaces)}

MeshesOn(layout) == UNION {MeshesOf(layout, n) : n \in 0 .. Len(layout)}

InputMeshes == UNION {MeshesOn(layout) : layout \in Layouts}

(***************************************************************************)
(* process_mesh as a state machine                                         *)
(***************************************************************************)
Init ==
    /\ input \in {m \in InputMeshes : Referenced(m) \subseteq 1 .. Len(m.vertices)}
    /\ pc = "clean"
    /\ components = <<>>
    /\ stages = <<>>
    /\ result = NotReturned
    /\ passes = <<>>
    /\ caller_mesh = NotReturned.value
    /\ transform = NotReturned
    /\ absorbed = {}
    /\ color_palette = <<>>
    /\ generated = 0
    /\ running = <<>>
    /\ ServerNotStarted
    /\ size = 0
    /\ palette = <<>>
    /\ ppc = "idle"
    /\ filled = 0
    /\ locals = NoLocals
    /\ results = <<>>
    /\ fills = <<>>

\* one stage call: what it was given, what it returned, and whether its body
\* raised an exception (which its own handler absorbed)
Call(name, arg, ret, raised) == [name |-> name, arg |-> arg, ret |-> ret, raised |-> raised]

LastReturn == stages[Len(stages)].ret

\* lines 155-184: clean_mesh; any exception in its body makes it return None
clean_mesh(m, raises) ==
    IF raises THEN [components |-> <<>>, mesh |-> NoMesh] ELSE CleanSteps(m)

\* lines 186-204: normalize_mesh; its body is arithmetic on mesh.bounds, which
\* raises exactly when bounds is None (line 190); the mesh is then returned as it is
normalize_mesh(m) == IF BoundsIsNone(m) THEN m ELSE NormalizeSteps(m)

enhance_sharpness_propagates(m, raises) ==
    IF raises THEN [passes |-> <<>>, mesh |-> NoMesh] ELSE SharpenSteps(m)

\* lines 71-128: enhance_sharpness; on an exception the mesh is returned as it is
enhance_sharpness(m, raises) ==
    IF raises THEN [passes |-> <<>>, mesh |-> m] ELSE SharpenSteps(m)

\* lines 206-227: enhance_colors; on an exception the mesh is returned as it is
enhance_colors(m, picks, raises) == IF raises THEN m ELSE ColorSteps(m, picks)

\* lines 135-137
CleanStage ==
    /\ pc = "clean"
    /\ \E raises \in BOOLEAN :
          LET r == clean_mesh(input, raises)
          IN  /\ stages' = Append(stages, Call("clean_mesh", input, r.mesh, raises))
              /\ components' = r.components
              /\ IF r.mesh.none
                 THEN pc' = "done" /\ result' = [returned |-> TRUE, value |-> NoMesh]
                 ELSE pc' = "normalize" /\ UNCHANGED result
    /\ UNCHANGED <<input, passes, caller_mesh, pvars, cvars, ovars, jvars>>

\* line 140
NormalizeStage ==
    /\ pc = "normalize"
    /\ stages' = Append(stages, Call("normalize_mesh", LastReturn,
                                      normalize_mesh(LastReturn), BoundsIsNone(LastReturn)))
    /\ pc' = "sharpen"
    /\ UNCHANGED <<input, components, result, passes, caller_mesh, pvars, cvars, ovars, jvars>>

\* line 143
SharpenStage ==
    /\ pc = "sharpen"
    /\ \E raises \in BOOLEAN :
          \E r \in {enhance_sharpness(LastReturn, raises)} :
              /\ stages' = Append(stages, Call("enhance_sharpness", LastReturn, r.mesh, raises))
              /\ passes' = r.passes
    /\ pc' = "colors"
    /\ UNCHANGED <<input, components, result, caller_mesh, pvars, cvars, ovars, jvars>>

\* lines 146-149
ColorsStage ==
    /\ pc = "colors"
    /\ \E raises \in BOOLEAN :
       \E picks \in IF VertexColorsIsNone(LastReturn)
                    THEN [1 .. Len(LastReturn.vertices) -> 1 .. Len(ColorPalette)]
                    ELSE {<<>>} :
          LET final == enhance_colors(LastReturn, picks, raises)
          IN  /\ stages' = Append(stages, Call("enhance_colors", LastReturn, final, raises))
              /\ result' = [returned |-> TRUE, value |-> final]
    /\ pc' = "done"
    /\ UNCHANGED <<input, components, passes, caller_mesh, pvars, cvars, ovars, jvars>>

Next == CleanStage \/ NormalizeStage \/ SharpenStage \/ ColorsStage

Spec == Init /\ [][Next]_vars

(***************************************************************************)
(* normalize_mesh, enhance_sharpness and enhance_colors called on their own  *)
(***************************************************************************)
\* faces that name a vertex twice or three times, among the first three vertices
RepeatTriples ==
    {t \in (1 .. 3) \X (1 .. 3) \X (1 .. 3) :
        t[1] <= t[2] /\ t[2] <= t[3] /\ (t[1] = t[2] \/ t[2] = t[3])}

\* meshes in general position one of whose faces names a vertex more than once
RepeatMeshesOf(n) ==
    {Mesh([i \in 1 .. n |-> PointTable[i]], 1, FaceSeq(T \cup {r}), <<>>) :
        r \in RepeatTriples, T \in SubsetsUpTo(Triples(n), MaxFaces - 1)}

RepeatMeshes == UNION {RepeatMeshesOf(n) : n \in 3 .. 5}

StageInputs ==
    {m \in InputMeshes \cup RepeatMeshes : Referenced(m) \subseteq 1 .. Len(m.vertices)}

InitStage ==
    /\ input \in StageInputs
    /\ pc = "call"
    /\ components = <<>>
    /\ stages = <<>>
    /\ result = NotReturned
    /\ passes = <<>>
    /\ caller_mesh = input
    /\ transform = NotReturned
    /\ absorbed = {}
    /\ color_palette = <<>>
    /\ generated = 0
    /\ running = <<>>
    /\ ServerNotStarted
    /\ size = 0
    /\ palette = <<>>
    /\ ppc = "idle"
    /\ filled = 0
    /\ locals = NoLocals
    /\ results = <<>>
    /\ fills = <<>>

\* lines 186-204: line 197 assigns to mesh.vertices of the caller's object,
\* which is also the object returned
CallNormalize ==
    /\ pc = "call"
    /\ stages' = <<Call("normalize_mesh", input, normalize_mesh(input), BoundsIsNone(input))>>
    /\ caller_mesh' = normalize_mesh(input)
    /\ pc' = "returned"
    /\ UNCHANGED <<input, components, result, passes, pvars, cvars, ovars, jvars>>

\* lines 71-128: the iterations work on copies (lines 74, 79) and the result
\* is a new Trimesh (line 117)
CallSharpen ==
    /\ pc = "call"
    /\ \E raises \in BOOLEAN :
          \E r \in {enhance_sharpness(input, raises)} :
              /\ stages' = <<Call("enhance_sharpness", input, r.mesh, raises)>>
              /\ passes' = r.passes
    /\ pc' = "returned"
    /\ UNCHANGED <<input, components, result, caller_mesh, pvars, cvars, ovars, jvars>>

\* lines 206-227: the colours are set on mesh.copy() (lines 215, 220)
CallColors ==
    /\ pc = "call"
    /\ \E raises \in BOOLEAN :
       \E picks \in IF VertexColorsIsNone(input)
                    THEN [1 .. Len(input.vertices) -> 1 .. Len(ColorPalette)]
                    ELSE {<<>>} :
          stages' = <<Call("enhance_colors", input, enhance_colors(input, picks, raises), raises)>>
    /\ pc' = "returned"
    /\ UNCHANGED <<input, components, result, passes, caller_mesh, pvars, cvars, ovars, jvars>>

NextStage == CallNormalize \/ CallSharpen \/ CallColors

SpecStage == InitStage /\ [][NextStage]_vars

(***************************************************************************)
(* ModelExporter.get_camera_transform (src/src/exporter.py).  A direction    *)
(* is kept as [dir, sq], standing for dir / sqrt(sq); sq = 0 stands for the  *)
(* nan entries that numpy's division by a zero norm produces.                *)
(***************************************************************************)
Direction(d, q) == [dir |-> IF q = 0 THEN <<0, 0, 0>> ELSE d, sq |-> q]

\* v / np.linalg.norm(v) for a vector v of real numbers
NormalizedKeepsLength(v) == Direction(v, 1)

Normalized(v) == Direction(Primitive(v), VDot(Primitive(v), Primitive(v)))

\* u / np.linalg.norm(u) for a direction u
Renormalized(u) == IF u.sq = 0 THEN Direction(u.dir, 0) ELSE Normalized(u.dir)

\* np.cross of two directions
CrossOf(a, b) == Direction(VCross(a.dir, b.dir), a.sq * b.sq)

Negated(a) == Direction(<<-a.dir[1], -a.dir[2], -a.dir[3]>>, a.sq)

\* line 188
world_up == Direction(<<0, 0, 1>>, 1)

\* np.eye(4): columns right, up, -forward, position, and the bottom row
Identity ==
    [right |-> Direction(<<1, 0, 0>>, 1), up |-> Direction(<<0, 1, 0>>, 1),
     back |-> Direction(<<0, 0, 1>>, 1), position |-> <<0, 0, 0>>, den |-> 1,
     bottom |-> <<0, 0, 0, 1>>]

\* line 183: distance * (0.8, 0.8, 0.6) = size * (2, 2, 1.5), in halves of size
CameraOffset == <<4, 4, 3>>

\* the axes on which the bounding box has no extent
FlatAxes(m) ==
    IF BoundsIsNone(m) THEN {} ELSE {k \in 1 .. 3 : BoundsLo(m, k) = BoundsHi(m, k)}

\* lines 175-200 for a mesh with bounds; coordinates are numerators over
\* 2 * m.den; on the axes in `far` the addition at line 183 returns center
CameraSteps(m, far) ==
    LET sz == IF Extent(m) = 0 THEN m.den ELSE Extent(m)
        center == [k \in 1 .. 3 |-> BoundsLo(m, k) + BoundsHi(m, k)]
        camera_pos == [k \in 1 .. 3 |->
                          IF k \in far THEN center[k] ELSE center[k] + sz * CameraOffset[k]]
        forward == Normalized(VSub(center, camera_pos))
        right == Renormalized(CrossOf(forward, world_up))
        up == CrossOf(right, forward)
    IN  [right |-> right, up |-> up, back |-> Negated(forward),
         position |-> camera_pos, den |-> 2 * m.den, bottom |-> Identity.bottom]

\* lines 172-204: bounds is None raises at line 176 and gives np.eye(4)
get_camera_transform(m, far) == IF BoundsIsNone(m) THEN Identity ELSE CameraSteps(m, far)

InitCamera ==
    /\ input \in {m \in InputMeshes : Referenced(m) \subseteq 1 .. Len(m.vertices)}
    /\ pc = "call"
    /\ components = <<>>
    /\ stages = <<>>
    /\ result = NotReturned
    /\ passes = <<>>
    /\ caller_mesh = input
    /\ transform = NotReturned
    /\ absorbed = {}
    /\ color_palette = <<>>
    /\ generated = 0
    /\ running = <<>>
    /\ ServerNotStarted
    /\ size = 0
    /\ palette = <<>>
    /\ ppc = "idle"
    /\ filled = 0
    /\ locals = NoLocals
    /\ results = <<>>
    /\ fills = <<>>

\* get_camera_transform in real arithmetic
GetCamera ==
    /\ pc = "call"
    /\ transform' = [returned |-> TRUE, value |-> get_camera_transform(input, {})]
    /\ pc' = "returned"
    /\ UNCHANGED <<absorbed, mvars_but_pc, pvars, ovars, jvars>>

NextCamera == GetCamera

SpecCamera == InitCamera /\ [][NextCamera]_vars

\* get_camera_transform in float64 arithmetic on a box that may lie far from
\* the origin: where |center| exceeds 2^53 times the offset, center + offset is
\* center; this needs the box to have no extent on that axis, because the
\* offset is at least 1.5 times the largest extent
GetCameraFloat ==
    /\ pc = "call"
    /\ \E far \in SUBSET FlatAxes(input) :
          /\ absorbed' = far
          /\ transform' = [returned |-> TRUE, value |-> get_camera_transform(input, far)]
    /\ pc' = "returned"
    /\ UNCHANGED <<mvars_but_pc, pvars, ovars, jvars>>

NextCameraFloat == GetCameraFloat

SpecCameraFloat == InitCamera /\ [][NextCameraFloat]_vars

(***************************************************************************)
(* Properties of process_mesh, clean_mesh and normalize_mesh               *)
(***************************************************************************)
StageNames == <<"clean_mesh", "normalize_mesh", "enhance_sharpness", "enhance_colors">>

\* C1: process_mesh calls clean_mesh, normalize_mesh, enhance_sharpness and
\* enhance_colors in that order, the first on its argument and each later one
\* on what the stage before returned; it returns no mesh if and only if
\* clean_mesh returned none, in which case no later stage was called; otherwise
\* all four stages ran and the value of the last is returned, also when a
\* stage's body raised.
C1_PipelineOrderAndFailure ==
    /\ Len(stages) <= Len(StageNames)
    /\ \A k \in 1 .. Len(stages) :
          /\ stages[k].name = StageNames[k]
          /\ stages[k].arg = IF k = 1 THEN input ELSE stages[k - 1].ret
    /\ pc = "done" =>
          /\ result.returned
          /\ result.value.none <=> stages[1].ret.none
          /\ stages[1].ret.none => Len(stages) = 1
          /\ ~stages[1].ret.none =>
                Len(stages) = Len(StageNames) /\ result.value = LastReturn

\* a finished run on a mesh with a face in which the body of enhance_sharpness
\* and the body of enhance_colors raised and a mesh was returned all the same
C1_Witness ==
    /\ pc = "done"
    /\ Len(stages) = Len(StageNames)
    /\ stages[3].raised
    /\ stages[4].raised
    /\ ~result.value.none
    /\ Len(result.value.faces) > 0

\* the faces of a mesh as the sets of the positions of their corners
FacePositions(m) ==
    [k \in 1 .. Len(m.faces) |->
        {m.vertices[m.faces[k][1]], m.vertices[m.faces[k][2]], m.vertices[m.faces[k][3]]}]

RECURSIVE EdgeReach(_, _)
EdgeReach(m, S) ==
    LET T == S \cup {j \in 1 .. Len(m.faces) :
                        \E i \in S : FaceEdges(m.faces[i]) \cap FaceEdges(m.faces[j]) # {}}
    IN  IF T = S THEN S ELSE EdgeReach(m, T)

\* the faces form one connected component under "two faces share an edge"
IsSingleComponent(m) == Len(m.faces) > 0 /\ EdgeReach(m, {1}) = 1 .. Len(m.faces)

CleanReturned == Len(stages) >= 1 /\ ~stages[1].ret.none

\* C7: when clean_mesh is given a mesh with at least one face and returns a
\* mesh, that mesh has no degenerate face, no vertex outside every face, and
\* its faces form a single connected component.
C7_CleanOutputWellFormed ==
    (CleanReturned /\ Len(input.faces) >= 1) =>
        LET m == stages[1].ret
        IN  /\ \A k \in 1 .. Len(m.faces) : ~IsDegenerate(m, m.faces[k])
            /\ Referenced(m) = 1 .. Len(m.vertices)
            /\ IsSingleComponent(m)

\* every face of the mesh is degenerate, or it has no face
EmptyAfterCleanup(m) == \A k \in 1 .. Len(m.faces) : IsDegenerate(m, m.faces[k])

\* C8: when every face of the input is degenerate or the input has no face,
\* clean_mesh returns no mesh, and process_mesh returns no mesh.
C8_EmptyMeshIsFailure ==
    (Len(stages) >= 1 /\ EmptyAfterCleanup(input)) =>
        /\ stages[1].ret.none
        /\ pc = "done" => result.value.none

\* C9: when split returns several components, the mesh clean_mesh returns
\* consists of the faces of exactly one of them, one whose vertex count no
\* other component exceeds and which precedes every other component of that
\* vertex count in the order split returned them.
C9_KeepsFirstLargestComponent ==
    (CleanReturned /\ Len(components) > 1) =>
        \E k \in 1 .. Len(components) :
            /\ \A j \in 1 .. Len(components) :
                  Len(components[j].vertices) <= Len(components[k].vertices)
            /\ \A j \in 1 .. (k - 1) :
                  Len(components[j].vertices) < Len(components[k].vertices)
            /\ FacePositions(stages[1].ret) = FacePositions(components[k])

\* clean_mesh returned after a split in which two components with different
\* faces share the greatest vertex count, and the earlier of them was kept
C9_Witness ==
    /\ CleanReturned
    /\ \E j, k \in 1 .. Len(components) :
          /\ j < k
          /\ Len(components[j].vertices) = Len(components[k].vertices)
          /\ \A i \in 1 .. Len(components) :
                Len(components[i].vertices) <= Len(components[j].vertices)
          /\ FacePositions(components[j]) # FacePositions(components[k])
          /\ FacePositions(stages[1].ret) = FacePositions(components[j])

NormalizeReturned == Len(stages) >= 2

Returned(name) == pc = "returned" /\ stages[1].name = name

\* C11: normalize_mesh always returns a mesh, with the faces, the number of
\* vertices and the colours of its argument; when the bounding box exists and
\* has zero extent every position becomes (v - center) / (1 * 0.5), i.e. the
\* scale factor is 1.
C11_NormalizeKeepsTopology ==
    Returned("normalize_mesh") =>
        LET a == stages[1].arg
            r == stages[1].ret
        IN  /\ ~r.none
            /\ r.faces = a.faces
            /\ Len(r.vertices) = Len(a.vertices)
            /\ r.colors = a.colors
            /\ (~BoundsIsNone(a) /\ Extent(a) = 0) =>
                  \A i \in 1 .. Len(a.vertices) : \A k \in 1 .. 3 :
                      r.vertices[i][k] * a.den =
                          (2 * a.vertices[i][k] - BoundsLo(a, k) - BoundsHi(a, k)) * r.den

\* normalize_mesh returned for a mesh whose box is a single point and which
\* has a vertex (outside every face) that is not at that point
C11_Witness ==
    /\ Returned("normalize_mesh")
    /\ ~BoundsIsNone(stages[1].arg)
    /\ Extent(stages[1].arg) = 0
    /\ \E i \in 1 .. Len(stages[1].arg.vertices) : \E k \in 1 .. 3 :
          2 * stages[1].arg.vertices[i][k] # BoundsLo(stages[1].arg, k) + BoundsHi(stages[1].arg, k)

SharpenRan == Returned("enhance_sharpness") /\ ~stages[1].raised

\* a / b = c / d for b, d > 0, compared in lowest terms
FracEq(a, b, c, d) ==
    /\ a \div Gcd(a, b) = c \div Gcd(c, d)
    /\ b \div Gcd(a, b) = d \div Gcd(c, d)

\* position i of mesh q equals position i of mesh p
SamePosition(p, q, i) ==
    \A c \in 1 .. 3 : FracEq(q.vertices[i][c], q.den, p.vertices[i][c], p.den)

\* position i of q is 0.8 * (position i of p) + 0.2 * (mean of the positions in
\* p of the neighbours nb of i)
BlendedPosition(p, q, i, nb) ==
    \A c \in 1 .. 3 :
        FracEq(q.vertices[i][c], q.den,
               4 * Len(nb) * p.vertices[i][c] + VSum(p.vertices, nb)[c], 5 * Len(nb) * p.den)

\* some two consecutive neighbour directions of vertex i enclose more than 60 degrees
ClassifiedSharp(p, i) ==
    LET nb == Neighbors(p.faces, i)
    IN  \E j \in 1 .. (Len(nb) - 1) :
           AngleAbove60(VSub(p.vertices[nb[j]], p.vertices[i]),
                        VSub(p.vertices[nb[j + 1]], p.vertices[i]))

\* C12: enhance_sharpness makes exactly 3 iterations; in each, a vertex
\* classified sharp on the positions before the iteration keeps its position,
\* and every other vertex with neighbours moves to 0.8 * old + 0.2 * centroid
\* of its neighbours, both taken from the positions before the iteration.
C12_SimultaneousUpdate ==
    SharpenRan =>
        /\ Len(passes) = 4
        /\ passes[1] = stages[1].arg
        /\ \A t \in 1 .. 3 : \A i \in 1 .. Len(passes[t].vertices) :
              LET nb == Neighbors(passes[t].faces, i)
              IN  IF ClassifiedSharp(passes[t], i)
                  THEN SamePosition(passes[t], passes[t + 1], i)
                  ELSE Len(nb) > 0 => BlendedPosition(passes[t], passes[t + 1], i, nb)

\* in one iteration a vertex and a neighbour of it with a lower index both
\* moved, in a later iteration a vertex moved again, and a third vertex was sharp
C12_Witness ==
    /\ SharpenRan
    /\ \E i, j \in 1 .. Len(passes[1].vertices) :
          /\ j < i
          /\ \E k \in 1 .. Len(Neighbors(passes[1].faces, i)) : Neighbors(passes[1].faces, i)[k] = j
          /\ ~SamePosition(passes[1], passes[2], i)
          /\ ~SamePosition(passes[1], passes[2], j)
          /\ ~SamePosition(passes[2], passes[3], i)
    /\ \E i \in 1 .. Len(passes[1].vertices) :
          \A t \in 1 .. 3 : ClassifiedSharp(passes[t], i)

\* C13: in every iteration of enhance_sharpness a vertex with fewer than 2
\* neighbours (none, or exactly one) keeps its position.
C13_FewNeighboursSkipped ==
    SharpenRan =>
        \A t \in 1 .. 3 : \A i \in 1 .. Len(passes[t].vertices) :
            Len(Neighbors(passes[t].faces, i)) < 2 =>
                SamePosition(passes[t], passes[t + 1], i)

\* vertex i has at least two neighbours, one of them at the position of i, so
\* that an angle at i is computed from a zero-length edge vector
HasZeroLengthEdge(p, i) ==
    LET nb == Neighbors(p.faces, i)
    IN  /\ Len(nb) >= 2
        /\ \E j \in 1 .. Len(nb) : p.vertices[nb[j]] = p.vertices[i]

\* C14: in every iteration of enhance_sharpness a vertex whose angle
\* computation meets a zero-length edge vector keeps its position in that
\* iteration, and the three iterations are completed.
C14_AnomalyLeavesVertexUnmoved ==
    SharpenRan =>
        /\ Len(passes) = 4
        /\ \A t \in 1 .. 3 : \A i \in 1 .. Len(passes[t].vertices) :
              HasZeroLengthEdge(passes[t], i) => SamePosition(passes[t], passes[t + 1], i)

\* C15: enhance_sharpness returns a mesh with the faces, the number of
\* vertices and (when the argument has colours) the colours of its argument,
\* and the caller's mesh keeps its vertex positions.
C15_SharpenKeepsTopology ==
    Returned("enhance_sharpness") =>
        LET a == stages[1].arg
            r == stages[1].ret
        IN  /\ r.faces = a.faces
            /\ Len(r.vertices) = Len(a.vertices)
            /\ a.colors # <<>> => r.colors = a.colors
            /\ caller_mesh.vertices = a.vertices /\ caller_mesh.den = a.den

\* C16: for a mesh without vertex colours enhance_colors returns a mesh with
\* one colour per vertex, each a palette entry followed by alpha 255.
C16_ColoursFromPalette ==
    (Returned("enhance_colors") /\ ~stages[1].raised /\ stages[1].arg.colors = <<>>) =>
        LET r == stages[1].ret
        IN  /\ Len(r.colors) = Len(r.vertices)
            /\ \A i \in 1 .. Len(r.colors) :
                  /\ r.colors[i][4] = 255
                  /\ <<r.colors[i][1], r.colors[i][2], r.colors[i][3]>> \in Range(ColorPalette)

\* C17: for a mesh with vertex colours enhance_colors returns a mesh with the
\* same colours, vertices and faces; when its body raises it returns its
\* argument, and the caller's mesh is as it was.
C17_ColoursPassThrough ==
    Returned("enhance_colors") =>
        LET a == stages[1].arg
            r == stages[1].ret
        IN  /\ a.colors # <<>> =>
                  /\ r.colors = a.colors
                  /\ r.vertices = a.vertices /\ r.den = a.den
                  /\ r.faces = a.faces
            /\ stages[1].raised => r = a /\ caller_mesh = a

\* enhance_colors returned, without raising, for a coloured mesh with faces
C17_Witness ==
    /\ Returned("enhance_colors")
    /\ ~stages[1].raised
    /\ stages[1].arg.colors # <<>>
    /\ Len(stages[1].arg.faces) > 0
    /\ \E i, j \in 1 .. Len(stages[1].arg.colors) : stages[1].arg.colors[i] # stages[1].arg.colors[j]

(***************************************************************************)
(* Properties of get_camera_transform                                      *)
(***************************************************************************)
CameraReturned == pc = "returned" /\ transform.returned

IsUnit(u) == u.sq > 0 /\ VDot(u.dir, u.dir) = u.sq

Orthogonal(u, w) == u.sq > 0 /\ w.sq > 0 /\ VDot(u.dir, w.dir) = 0

\* right x up points along the third column
RightHanded(t) ==
    /\ VCross(t.right.dir, t.up.dir) # <<0, 0, 0>>
    /\ Primitive(VCross(t.right.dir, t.up.dir)) = Primitive(t.back.dir)

HasUndefinedEntry(t) == t.right.sq = 0 \/ t.up.sq = 0 \/ t.back.sq = 0

\* a normalisation at line 186 or 190 divides by a zero norm: the offset is
\* lost on all three axes, or on the x and y axes
ZeroLengthNormalize == {1, 2} \subseteq absorbed

\* C19: the transform returned has no undefined entry, and when a
\* normalisation divides by a zero-length vector or the mesh has no bounds
\* the transform returned is the identity.
C19_NoUndefinedEntries ==
    CameraReturned =>
        /\ ~HasUndefinedEntry(transform.value)
        /\ (ZeroLengthNormalize \/ BoundsIsNone(input)) => transform.value = Identity

(***************************************************************************)
(* One MeshProcessor shared by several threads (processor.py lines 12-15,  *)
(* 130-153, 206-256; web_viewer.py runs requests on threads)               *)
(***************************************************************************)
MaxItems == 2

Threads == {"t1", "t2"}

\* constructor arguments whose palette is complete after the RGB cube loops
ConstructorSizes == {0, 1, 6, 8}

\* values of hash(tuple(vertex.round(decimals=2))) (line 234), up to congruence
HashValues == 0 .. 2

\* colours handed to quantize_to_palette
QuantizeInputs == {<<0, 0, 0>>, <<200, 255, 90>>}

SeqsUpTo(S, n) == UNION {[1 .. k -> S] : k \in 0 .. n}

Idle == [op |-> "idle", todo |-> <<>>, out |-> <<>>, raised |-> FALSE]

\* squared np.linalg.norm(self.color_palette[i] - color) of line 248
Distance2(entry, color) ==
    (entry[1] - color[1]) * (entry[1] - color[1])
    + (entry[2] - color[2]) * (entry[2] - color[2])
    + (entry[3] - color[3]) * (entry[3] - color[3])

\* np.argmin (line 249): the first index of the smallest distance
ClosestIdx(pal, color) ==
    CHOOSE i \in 1 .. Len(pal) :
        /\ \A j \in 1 .. Len(pal) : Distance2(pal[i], color) <= Distance2(pal[j], color)
        /\ \A j \in 1 .. i - 1 : Distance2(pal[j], color) > Distance2(pal[i], color)

\* `self.color_palette -= color` in place of the temporary of line 248
QuantizeStepInPlace(pal, out, color) ==
    [palette |-> [i \in 1 .. Len(pal) |->
                     ToUint8(<<pal[i][1] - color[1] + 256, pal[i][2] - color[2] + 256,
                               pal[i][3] - color[3] + 256>>)],
     out     |-> Append(out, pal[ClosestIdx(pal, color)])]

\* lines 248-250: one iteration; the difference is a temporary, the entry is
\* appended to the local list, self.color_palette is only read
QuantizeStep(pal, out, color) ==
    [palette |-> pal, out |-> Append(out, pal[ClosestIdx(pal, color)])]

\* lines 234-235: one iteration; Python's % gives an index in 0 .. len - 1
PositionalStep(pal, out, h) ==
    [palette |-> pal, out |-> Append(out, pal[(h % Len(pal)) + 1])]

InitProcessor ==
    /\ pc = "new"
    /\ color_palette = <<>>
    /\ generated = 0
    /\ running = [t \in Threads |-> Idle]
    /\ ServerNotStarted
    /\ input = NotReturned.value
    /\ components = <<>>
    /\ stages = <<>>
    /\ result = NotReturned
    /\ passes = <<>>
    /\ caller_mesh = NotReturned.value
    /\ transform = NotReturned
    /\ absorbed = {}
    /\ size = 0
    /\ palette = <<>>
    /\ ppc = "idle"
    /\ filled = 0
    /\ locals = NoLocals
    /\ results = <<>>
    /\ fills = <<>>

\* lines 13-15: MeshProcessor(palette_size)
Construct ==
    /\ pc = "new"
    /\ \E n \in ConstructorSizes :
          color_palette' = ReturnedPalette(RgbCubeGrid(n), n)
    /\ generated' = generated + 1
    /\ pc' = "ready"
    /\ UNCHANGED <<running, mvars_but_pc, pvars, cvars, jvars>>

\* line 130: a thread enters process_mesh
StartProcessMesh(t) ==
    /\ pc = "ready"
    /\ running[t].op = "idle"
    /\ running' = [running EXCEPT ![t] = [Idle EXCEPT !.op = "process_mesh"]]
    /\ UNCHANGED <<color_palette, generated, mvars, pvars, cvars, jvars>>

\* line 146 from process_mesh, or a direct call of enhance_colors (line 206)
StartEnhanceColors(t) ==
    /\ pc = "ready"
    /\ running[t].op \in {"idle", "process_mesh"}
    /\ running' = [running EXCEPT ![t] = [Idle EXCEPT !.op = "enhance_colors"]]
    /\ UNCHANGED <<color_palette, generated, mvars, pvars, cvars, jvars>>

\* line 229
StartPositional(t) ==
    /\ pc = "ready"
    /\ running[t].op = "idle"
    /\ \E hs \in SeqsUpTo(HashValues, MaxItems) :
          running' = [running EXCEPT ![t] =
                         [Idle EXCEPT !.op = "generate_positional_colors", !.todo = hs]]
    /\ UNCHANGED <<color_palette, generated, mvars, pvars, cvars, jvars>>

\* lines 233-235; `% len(self.color_palette)` raises for an empty palette and
\* the handler of lines 239-241 returns the grey array
StepPositional(t) ==
    /\ running[t].op = "generate_positional_colors"
    /\ running[t].todo # <<>>
    /\ ~running[t].raised
    /\ IF Len(color_palette) = 0
       THEN /\ running' = [running EXCEPT ![t].raised = TRUE]
            /\ UNCHANGED color_palette
       ELSE LET r == PositionalStep(color_palette, running[t].out, Head(running[t].todo))
            IN  /\ color_palette' = r.palette
                /\ running' = [running EXCEPT ![t].out = r.out,
                                              ![t].todo = Tail(running[t].todo)]
    /\ UNCHANGED <<generated, mvars, pvars, cvars, jvars>>

\* line 243
StartQuantize(t) ==
    /\ pc = "ready"
    /\ running[t].op = "idle"
    /\ \E cs \in SeqsUpTo(QuantizeInputs, MaxItems) :
          running' = [running EXCEPT ![t] =
                         [Idle EXCEPT !.op = "quantize_to_palette", !.todo = cs]]
    /\ UNCHANGED <<color_palette, generated, mvars, pvars, cvars, jvars>>

\* lines 247-250; np.argmin of an empty array raises and the handler of lines
\* 254-256 returns the colours it was given
StepQuantize(t) ==
    /\ running[t].op = "quantize_to_palette"
    /\ running[t].todo # <<>>
    /\ ~running[t].raised
    /\ IF Len(color_palette) = 0
       THEN /\ running' = [running EXCEPT ![t].raised = TRUE]
            /\ UNCHANGED color_palette
       ELSE LET r == QuantizeStep(color_palette, running[t].out, Head(running[t].todo))
            IN  /\ color_palette' = r.palette
                /\ running' = [running EXCEPT ![t].out = r.out,
                                              ![t].todo = Tail(running[t].todo)]
    /\ UNCHANGED <<generated, mvars, pvars, cvars, jvars>>

\* the return statements of lines 149-153, 217-227, 237-241, 252-256
Finish(t) ==
    /\ running[t].op # "idle"
    /\ running[t].todo = <<>> \/ running[t].raised
    /\ running' = [running EXCEPT ![t] = Idle]
    /\ UNCHANGED <<color_palette, generated, mvars, pvars, cvars, jvars>>

NextProcessor ==
    \/ Construct
    \/ \E t \in Threads :
          \/ StartProcessMesh(t)
          \/ StartEnhanceColors(t)
          \/ StartPositional(t)
          \/ StepPositional(t)
          \/ StartQuantize(t)
          \/ StepQuantize(t)
          \/ Finish(t)

SpecProcessor == InitProcessor /\ [][NextProcessor]_vars

(***************************************************************************)
(* Claims about the shared palette (under SpecProcessor)                   *)
(***************************************************************************)
Constructed == generated >= 1

\* C20: the palette is generated once, at construction, and from then on no
\* operation of the processor, in any number, order or interleaving between
\* threads, changes its entries or its length or generates it again.
C20_PaletteReadOnly ==
    [][/\ generated' <= 1
       /\ Constructed => (color_palette' = color_palette /\ generated' = generated)]_vars

\* two threads are in the middle of palette-reading loops on the same processor
C20_Witness ==
    /\ Constructed
    /\ Len(color_palette) > 1
    /\ \E t, u \in Threads :
          /\ running[t].op = "quantize_to_palette"
          /\ running[u].op = "generate_positional_colors"
          /\ running[t].out # <<>> /\ running[t].todo # <<>>
          /\ running[u].out # <<>> /\ running[u].todo # <<>>

(***************************************************************************)
(* The web viewer (src/web_viewer.py): /generate handlers and background   *)
(* generation threads sharing active_jobs, job_counter and the outputs     *)
(* directory; Flask runs with threaded=True (line 213)                     *)
(***************************************************************************)
MaxClock == 1

Requests == {"r1", "r2"}

\* data.get('prompt', '').strip() of line 88
Prompts == {"", "cat", "dog"}

\* the formats the viewer records, in the order export_model writes them
\* (exporter.py lines 39-49)
Formats == <<"glb", "obj", "ply">>

\* Python's None for a file name
NoName == <<>>

NoFile == [name |-> NoName, run |-> ""]

NewRequest ==
    [pc |-> "idle", prompt |-> "", loaded |-> 0, job_id |-> <<>>, timestamp |-> 0,
     written |-> {}, success |-> FALSE, picked |-> <<>>]

\* line 98: f"job_{job_counter}_{int(time.time())}"
JobId(counter, time) == <<counter, time>>

\* d[key] = value on a dict
Put(d, key, value) == [k \in DOMAIN d \cup {key} |-> IF k = key THEN value ELSE d[k]]

\* open(path, 'w') and write: the file is created or replaced and becomes the
\* most recently modified one
Written(dir, f) == Append(SelectSeq(dir, LAMBDA g : g.name # f.name), f)

\* lines 47-52 and 59-61: files sorted by st_mtime, newest first; the first of
\* the given suffix, or None
Newest(dir, fmt) ==
    LET idx == {i \in 1 .. Len(dir) : dir[i].name[3] = fmt}
    IN  IF idx = {} THEN NoFile ELSE dir[CHOOSE i \in idx : \A j \in idx : j <= i]

InitJobs ==
    /\ job_counter = 0
    /\ active_jobs = <<>>
    /\ now = 0
    /\ outputs = <<>>
    /\ requests = [r \in Requests |-> NewRequest]
    /\ pc = "idle"
    /\ color_palette = <<>>
    /\ generated = 0
    /\ running = <<>>
    /\ input = NotReturned.value
    /\ components = <<>>
    /\ stages = <<>>
    /\ result = NotReturned
    /\ passes = <<>>
    /\ caller_mesh = NotReturned.value
    /\ transform = NotReturned
    /\ absorbed = {}
    /\ size = 0
    /\ palette = <<>>
    /\ ppc = "idle"
    /\ filled = 0
    /\ locals = NoLocals
    /\ results = <<>>
    /\ fills = <<>>

\* lines 86-95: an empty prompt is answered with 400 and creates no job
Receive(r) ==
    /\ requests[r].pc = "idle"
    /\ \E p \in Prompts :
          requests' = [requests EXCEPT ![r].prompt = p,
                          ![r].pc = IF p = "" THEN "rejected" ELSE "increment"]
    /\ UNCHANGED <<job_counter, active_jobs, now, outputs, mvars, pvars, cvars, ovars>>

\* line 97, `job_counter += 1`: the read of the global
LoadCounter(r) ==
    /\ requests[r].pc = "increment"
    /\ requests' = [requests EXCEPT ![r].loaded = job_counter, ![r].pc = "store"]
    /\ UNCHANGED <<job_counter, active_jobs, now, outputs, mvars, pvars, cvars, ovars>>

\* line 97, `job_counter += 1`: the write of the global
StoreCounter(r) ==
    /\ requests[r].pc = "store"
    /\ job_counter' = requests[r].loaded + 1
    /\ requests' = [requests EXCEPT ![r].pc = "name"]
    /\ UNCHANGED <<active_jobs, now, outputs, mvars, pvars, cvars, ovars>>

\* line 98: the global is read again for the job id
NameJob(r) ==
    /\ requests[r].pc = "name"
    /\ requests' = [requests EXCEPT ![r].job_id = JobId(job_counter, now),
                                    ![r].pc = "insert"]
    /\ UNCHANGED <<job_counter, active_jobs, now, outputs, mvars, pvars, cvars, ovars>>

\* lines 100-114: the entry is written and the background thread started
InsertJob(r) ==
    /\ requests[r].pc = "insert"
    /\ active_jobs' = Put(active_jobs, requests[r].job_id,
                          [status |-> "starting", prompt |-> requests[r].prompt,
                           files |-> <<>>])
    /\ requests' = [requests EXCEPT ![r].pc = "background"]
    /\ UNCHANGED <<job_counter, now, outputs, mvars, pvars, cvars, ovars>>

\* lines 38-40
SetGenerating(r) ==
    /\ requests[r].pc = "background"
    /\ active_jobs' = [active_jobs EXCEPT ![requests[r].job_id].status = "generating"]
    /\ requests' = [requests EXCEPT ![r].pc = "generate"]
    /\ UNCHANGED <<job_counter, now, outputs, mvars, pvars, cvars, ovars>>

\* main.py lines 52-54, 59-61, 77-79: generate_model returns False
GenerateFails(r) ==
    /\ requests[r].pc = "generate"
    /\ requests' = [requests EXCEPT ![r].success = FALSE, ![r].pc = "report"]
    /\ UNCHANGED <<job_counter, active_jobs, now, outputs, mvars, pvars, cvars, ovars>>

\* main.py line 64 and exporter.py lines 25-27: the file names carry the
\* prompt and the second in which the export starts
StartExport(r) ==
    /\ requests[r].pc = "generate"
    /\ requests' = [requests EXCEPT ![r].timestamp = now, ![r].pc = Formats[1]]
    /\ UNCHANGED <<job_counter, active_jobs, now, outputs, mvars, pvars, cvars, ovars>>

AfterFormat(fmt) ==
    IF fmt = Formats[1] THEN Formats[2] ELSE IF fmt = Formats[2] THEN Formats[3] ELSE "report"

\* exporter.py lines 39-49 (export_glb, export_obj, export_ply): each writes
\* its file or logs its failure and returns None; export_model carries on and
\* main.py line 75 returns True after the last of them
ExportFormat(r) ==
    /\ requests[r].pc \in Range(Formats)
    /\ \E ok \in BOOLEAN :
          LET fmt == requests[r].pc
              f   == [name |-> <<requests[r].prompt, requests[r].timestamp, fmt>>, run |-> r]
          IN  /\ outputs' = IF ok THEN Written(outputs, f) ELSE outputs
              /\ requests' = [requests EXCEPT
                    ![r].written = IF ok THEN @ \cup {fmt} ELSE @,
                    ![r].success = (fmt = Formats[3]),
                    ![r].pc = AfterFormat(fmt)]
    /\ UNCHANGED <<job_counter, active_jobs, now, mvars, pvars, cvars, ovars>>

\* lines 47-52, 59-61: the newest file of each format in the directory
ReportSteps(dir) ==
    [f \in 1 .. Len(Formats) |-> Newest(dir, Formats[f])]

\* lines 44-71: completed with the newest files when generate_model returned
\* True and a ply file exists, error otherwise
Report(r) ==
    /\ requests[r].pc = "report"
    /\ \E picked \in {ReportSteps(outputs)} :
          LET done == requests[r].success /\ picked[3] # NoFile
          IN  /\ active_jobs' = [active_jobs EXCEPT
                    ![requests[r].job_id].status = IF done THEN "completed" ELSE "error",
                    ![requests[r].job_id].files =
                        IF done THEN [f \in 1 .. Len(picked) |-> picked[f].name] ELSE @]
              /\ requests' = [requests EXCEPT
                    ![r].picked = IF done THEN picked ELSE <<>>,
                    ![r].pc = "done"]
    /\ UNCHANGED <<job_counter, now, outputs, mvars, pvars, cvars, ovars>>

\* a second passes on the clock
Tick ==
    /\ now < MaxClock
    /\ now' = now + 1
    /\ UNCHANGED <<job_counter, active_jobs, outputs, requests, mvars, pvars, cvars, ovars>>

\* the steps of the handler and background thread of an accepted request
ThreadStep(r) ==
    \/ LoadCounter(r)
    \/ StoreCounter(r)
    \/ NameJob(r)
    \/ InsertJob(r)
    \/ SetGenerating(r)
    \/ GenerateFails(r)
    \/ StartExport(r)
    \/ ExportFormat(r)
    \/ Report(r)

NextJobs ==
    \/ Tick
    \/ \E r \in Requests : Receive(r) \/ ThreadStep(r)

SpecJobs == InitJobs /\ [][NextJobs]_vars

\* every started thread is scheduled again and generate_model returns
SpecJobsFair == SpecJobs /\ \A r \in Requests : WF_vars(ThreadStep(r))

(***************************************************************************)
(* Claims about the web viewer (under SpecJobs and SpecJobsFair)           *)
(***************************************************************************)
\* between the read of job_counter at line 97 and the end of the write of
\* the entry at line 107
Accessing(r) == requests[r].pc \in {"store", "name", "insert"}

Named(r) == requests[r].job_id # <<>>

DistinctIds ==
    \A r, s \in Requests :
        (r # s /\ Named(r) /\ Named(s)) => requests[r].job_id # requests[s].job_id

\* C21: accesses to job_counter and active_jobs exclude each other: no two
\* threads are inside such an access at the same time, and so concurrent
\* /generate requests get distinct job ids and none overwrites another's entry.
C21_ExclusiveAccess ==
    /\ \A r, s \in Requests : r # s => ~(Accessing(r) /\ Accessing(s))
    /\ DistinctIds

JobIds == (1 .. Cardinality(Requests)) \X (0 .. MaxClock)

StatusOf(jobs, j) == IF j \in DOMAIN jobs THEN jobs[j].status ELSE "none"

Terminal == {"completed", "error"}

LifecycleSteps ==
    {<<"none", "starting">>, <<"starting", "generating">>,
     <<"generating", "completed">>, <<"generating", "error">>}

\* one step of the status of job j: unchanged, or the next one in the order;
\* completed is written only by a thread whose generate_model returned True
LifecycleStep(j) ==
    LET old == StatusOf(active_jobs, j)
        new == StatusOf(active_jobs', j)
    IN  /\ old = new \/ <<old, new>> \in LifecycleSteps
        /\ (new = "completed" /\ old # new) =>
               \E r \in Requests : requests[r].job_id = j /\ requests[r].success

\* C22: the status of a job goes starting, generating, then completed or
\* error and stays there; completed only after generate_model returned success;
\* and every job reaches completed or error.
C22_StatusLifecycle ==
    /\ [][\A j \in JobIds : LifecycleStep(j)]_vars
    /\ \A j \in JobIds :
          (j \in DOMAIN active_jobs) ~> (StatusOf(active_jobs, j) \in Terminal)

\* the status order on the behaviours in which the job ids stay distinct
LifecycleWhileIdsDistinct ==
    [][(DistinctIds /\ DistinctIds') => \A j \in JobIds : LifecycleStep(j)]_vars

\* progress alone: every entry reaches completed or error
EveryJobEnds ==
    \A j \in JobIds :
        (j \in DOMAIN active_jobs) ~> (StatusOf(active_jobs, j) \in Terminal)

\* C23: the ply, glb and obj files recorded for a completed job were written
\* by that job's own generation run.
C23_OwnFilesRecorded ==
    \A r \in Requests :
        requests[r].picked # <<>> =>
            \A f \in 1 .. Len(Formats) :
                requests[r].picked[f] = NoFile \/ requests[r].picked[f].run = r

\* a format this run did not write is recorded as absent
FailedFormatNotRecorded ==
    \A r \in Requests :
        requests[r].picked # <<>> =>
            \A f \in 1 .. Len(Formats) :
                Formats[f] \notin requests[r].written => requests[r].picked[f] = NoFile

====
